---- MODULE Spec2Model ----
(***************************************************************************)
(* Model of the concurrent traversal engine of src/find.cpp: main(),       *)
(* finder::params::from, finder::run, the dispatcher loop finder::thread   *)
(* and the scanner tasks finder::run_visit, over a small file system.      *)
(***************************************************************************)
EXTENDS Integers, Sequences, FiniteSets, TLC

\* ------------------------------------------------------------------ bounds
\* Number of file-system positions.  Position 1 is the path given on the
\* command line; the children of position i are positions 2i and 2i+1.
MaxNodes == 4

Nodes == 1..MaxNodes

\* ------------------------------------------------------ program constants
duplicate_arg == 1
unknown_arg == 2
generic == 3
path_absent == 4
path_not_exist == 5
path_not_dir == 6
EXIT_SUCCESS == 0

\* ----------------------------------------------------------- characters
\* Strings are sequences of one-character strings.
DASH_TYPE == <<"-", "t", "y", "p", "e">>
DASH_NAME == <<"-", "n", "a", "m", "e">>
DASH_INAME == <<"-", "i", "n", "a", "m", "e">>
DASH_X == <<"-", "x">>
ROOT == <<"r">>

\* std::string_view::starts_with("-")
starts_with_dash(s) == Len(s) >= 1 /\ s[1] = "-"

\* tolower, for std::regex_constants::icase
ToLower(c) == IF c = "A" THEN "a" ELSE IF c = "B" THEN "b" ELSE c

\* std::string::find(from, start_pos); positions are 1-based, 0 is npos
RECURSIVE str_find(_, _, _)
str_find(str, from, pos) ==
  IF pos + Len(from) - 1 > Len(str) THEN 0
  ELSE IF SubSeq(str, pos, pos + Len(from) - 1) = from THEN pos
  ELSE str_find(str, from, pos + 1)

RECURSIVE replace_loop(_, _, _, _)
replace_loop(str, from, to, start_pos) ==
  LET f == str_find(str, from, start_pos) IN
  IF f = 0 THEN str
  ELSE replace_loop(SubSeq(str, 1, f - 1) \o to \o SubSeq(str, f + Len(from), Len(str)),
                    from, to, f + Len(to))

replace_all(str, from, to) ==
  IF from = <<>> THEN str ELSE replace_loop(str, from, to, 1)

\* A compiled std::regex: its source and its icase flag.
regex_from(s, icase) ==
  [has |-> TRUE, re |-> replace_all(s, <<"*">>, <<".", "*">>), icase |-> icase]

NoRegex == [has |-> FALSE, re |-> <<>>, icase |-> FALSE]

AtomMatch(c, a, icase) ==
  \/ a = "."
  \/ IF icase THEN ToLower(c) = ToLower(a) ELSE c = a

\* std::regex_match (anchored) for the ECMAScript subset: literal
\* characters, '.', and a postfix '*'.
RECURSIVE regex_match_re(_, _, _)
regex_match_re(s, r, icase) ==
  IF r = <<>> THEN s = <<>>
  ELSE IF Len(r) >= 2 /\ r[2] = "*"
       THEN \/ regex_match_re(s, SubSeq(r, 3, Len(r)), icase)
            \/ /\ s # <<>>
               /\ AtomMatch(s[1], r[1], icase)
               /\ regex_match_re(Tail(s), r, icase)
       ELSE /\ s # <<>>
            /\ AtomMatch(s[1], r[1], icase)
            /\ regex_match_re(Tail(s), Tail(r), icase)

regex_match(s, rx) == regex_match_re(s, rx.re, rx.icase)

\* ------------------------------------------------------------- arguments
type_filter_from(t) ==
  IF Len(t) # 1 THEN "none"
  ELSE IF t[1] = "d" THEN "directories"
  ELSE IF t[1] = "f" THEN "files"
  ELSE "none"

EmptyParams == [path |-> FALSE, type |-> "none", name |-> NoRegex, iname |-> NoRegex]

Unexpected(c) == [ok |-> FALSE, err |-> c, obj |-> EmptyParams]
Expected(o) == [ok |-> TRUE, err |-> 0, obj |-> o]

RECURSIVE from_loop(_, _, _, _)
from_loop(args, i, obj, current) ==
  IF i > Len(args) THEN Expected(obj)
  ELSE LET a == args[i] IN
    IF current = "arg_none" THEN
      IF a = DASH_TYPE THEN
        IF obj.type # "none" THEN Unexpected(duplicate_arg)
        ELSE from_loop(args, i + 1, obj, "arg_type")
      ELSE IF a = DASH_NAME THEN
        IF obj.name.has THEN Unexpected(duplicate_arg)
        ELSE from_loop(args, i + 1, obj, "arg_name")
      ELSE IF a = DASH_INAME THEN
        IF obj.iname.has THEN Unexpected(duplicate_arg)
        ELSE from_loop(args, i + 1, obj, "arg_iname")
      ELSE Unexpected(unknown_arg)
    ELSE IF current = "arg_type" THEN
      from_loop(args, i + 1, [obj EXCEPT !.type = type_filter_from(a)], "arg_none")
    ELSE IF current = "arg_name" THEN
      from_loop(args, i + 1, [obj EXCEPT !.name = regex_from(a, FALSE)], "arg_none")
    ELSE
      from_loop(args, i + 1, [obj EXCEPT !.iname = regex_from(a, TRUE)], "arg_none")

\* args is argv without argv[0]: opts.size() = Len(args) + 1
params_from(args) ==
  IF Len(args) = 0 THEN Expected(EmptyParams)
  ELSE IF ~starts_with_dash(args[1])
       THEN from_loop(args, 2, [EmptyParams EXCEPT !.path = TRUE], "arg_none")
       ELSE from_loop(args, 1, EmptyParams, "arg_none")

\* The command lines explored by the traversal specification.
ArgvSet ==
  { <<>>,
    <<ROOT>>,
    <<ROOT, DASH_TYPE, <<"f">>>>,
    <<ROOT, DASH_NAME, <<"a", "*">>>>,
    <<DASH_TYPE, <<"d">>>>,
    <<ROOT, DASH_X>>,
    <<ROOT, DASH_NAME, <<"a">>, DASH_NAME, <<"b">>>> }

\* ------------------------------------------------------------ file system
Kinds == {"absent", "dir", "file", "linkdir", "linkfile"}

\* Directories that cannot be enumerated: "dir_denied" refuses permission,
\* "dir_error" fails with another error at some point of its enumeration
FailKinds == {"dir_denied", "dir_error"}

Parent(n) == n \div 2
ChildNodes(n) == {c \in Nodes : c >= 2 /\ c \div 2 = n}
Sibling(n) == IF n % 2 = 0 THEN n + 1 ELSE n - 1

\* The directory a symbolic link resolves to.  The command-line path that
\* is a link resolves to the directory whose children are positions 2, 3.
Target(n) == IF n = 1 THEN 1 ELSE Sibling(n)

\* fs::path::filename() of each position
Name(n) ==
  CASE n = 1 -> ROOT
    [] n % 4 = 2 -> <<"a">>
    [] n % 4 = 3 -> <<"A", "b">>
    [] n % 4 = 0 -> <<"b">>
    [] OTHER -> <<"a", "b">>

WellFormedFs(k) ==
  /\ k[1] \in {"absent", "dir", "file", "linkdir", "linkfile"}
  /\ \A n \in Nodes \ {1} :
       /\ k[n] # "absent" => (k[Parent(n)] = "dir" \/ (Parent(n) = 1 /\ k[1] = "linkdir"))
       /\ k[n] = "linkdir" => (Sibling(n) \in Nodes /\ k[Sibling(n)] = "dir")

VARIABLES
  argv,      \* the command line (without argv[0])
  kind,      \* the file system: kind of each position
  mainpc,    \* position of main(): "from", "run", "join", "done"
  m_params,  \* finder::m_params
  status,    \* process exit status, -1 while running
  errlines,  \* number of lines written to std::cerr
  m_mtx,     \* owner of finder::m_mtx: 0 free, else the id of the task holding it
  m_queue,   \* finder::m_queue
  m_tasks,   \* finder::m_tasks: the futures with the state of their task
  nextId,    \* number of tasks started so far
  disp,      \* position of finder::thread: "idle", "top", "waiting", "exited"
  out,       \* what has been written to std::cout, one element per operator<<
  pushed,    \* history: every entry ever pushed on m_queue
  scanned,   \* history: every entry for which a task was started
  notified   \* history: number of calls of m_cv.notify_one()

vars == <<argv, kind, mainpc, m_params, status, errlines, m_mtx, m_queue,
          m_tasks, nextId, disp, out, pushed, scanned, notified>>

NL == <<>>

\* ------------------------------------------------- directory_entry queries
KindOf(p) == kind[p[Len(p)]]
is_symlink(p) == KindOf(p) \in {"linkdir", "linkfile"}
is_directory_nofollow(p) == KindOf(p) \in {"dir"} \cup FailKinds
is_directory(p) == KindOf(p) \in {"dir", "linkdir"} \cup FailKinds
is_regular_file(p) == KindOf(p) \in {"file", "linkfile"}
filename(p) == Name(p[Len(p)])
fs_exists(p) == KindOf(p) # "absent"

\* The elements of a set of positions in ascending order
RECURSIVE Ascending(_)
Ascending(S) ==
  IF S = {} THEN <<>>
  ELSE LET m == CHOOSE x \in S : \A y \in S : x <= y
       IN <<m>> \o Ascending(S \ {m})

\* fs::directory_iterator(entry, skip_permission_denied): the entries of the
\* directory p resolves to, in the order the file system yields them
\* (positions are numbered in that order); none when permission is denied
ListingDropLast(p) ==
  LET n == p[Len(p)]
      d == IF kind[n] = "linkdir" THEN Target(n) ELSE n
      cs == Ascending({x \in ChildNodes(d) : kind[x] # "absent"})
  IN [j \in 1..(Len(cs) - 1) |-> Append(p, cs[j])]
Listing(p) ==
  LET n == p[Len(p)]
      d == IF kind[n] = "linkdir" THEN Target(n) ELSE n
      cs == IF kind[d] = "dir_denied" THEN <<>>
            ELSE Ascending({x \in ChildNodes(d) : kind[x] # "absent"})
  IN [j \in 1..Len(cs) |-> Append(p, cs[j])]

shall_print_last_wins(entry) ==
  LET r0 == IF m_params.type = "directories" THEN is_directory(entry)
            ELSE IF m_params.type = "files" THEN is_regular_file(entry)
            ELSE TRUE
      r1 == IF m_params.name.has
            THEN regex_match(filename(entry), m_params.name)
            ELSE r0
  IN IF m_params.iname.has
     THEN regex_match(filename(entry), m_params.iname)
     ELSE r1
shall_print(entry) ==
  LET r0 == IF m_params.type = "directories" THEN is_directory(entry)
            ELSE IF m_params.type = "files" THEN is_regular_file(entry)
            ELSE TRUE
      r1 == IF m_params.name.has
            THEN r0 /\ regex_match(filename(entry), m_params.name)
            ELSE r0
  IN IF m_params.iname.has
     THEN r1 /\ regex_match(filename(entry), m_params.iname)
     ELSE r1

\* ------------------------------------------------------------------- Init
Init ==
  /\ argv \in ArgvSet
  /\ kind \in {k \in [Nodes -> Kinds] : WellFormedFs(k)}
  /\ mainpc = "from"
  /\ m_params = EmptyParams
  /\ status = -1
  /\ errlines = 0
  /\ m_mtx = 0
  /\ m_queue = <<>>
  /\ m_tasks = <<>>
  /\ nextId = 0
  /\ disp = "idle"
  /\ out = <<>>
  /\ pushed = <<>>
  /\ scanned = <<>>
  /\ notified = 0

\* ------------------------------------------------------------------- main
\* finder::handle_err: one line on std::cerr, the code becomes the status
handle_err(ec) ==
  /\ errlines' = errlines + 1
  /\ status' = ec
  /\ mainpc' = "done"

\* main: finder::from(opts), and or_else(handle_err) when it fails
MainFrom ==
  /\ mainpc = "from"
  /\ LET r == params_from(argv) IN
       IF r.ok
       THEN /\ m_params' = r.obj
            /\ mainpc' = "run"
            /\ UNCHANGED <<status, errlines>>
       ELSE /\ handle_err(r.err)
            /\ UNCHANGED m_params
  /\ UNCHANGED <<argv, kind, m_mtx, m_queue, m_tasks, nextId, disp, out, pushed,
                 scanned, notified>>

\* m_cv.notify_one() at the end of queue_visit
signals_push_silent(n) == n
signals_after_push(n) == n + 1

\* m_queue.push(entry) in queue_visit
queue_push_twice(queue, entry) == Append(Append(queue, entry), entry)
queue_push(queue, entry) == Append(queue, entry)

\* The pre-flight checks of finder::run; 0 when they pass
run_check_no_dir_test ==
  IF ~m_params.path THEN path_absent
  ELSE IF ~fs_exists(<<1>>) THEN path_not_exist
  ELSE 0
run_check ==
  IF ~m_params.path THEN path_absent
  ELSE IF ~fs_exists(<<1>>) THEN path_not_exist
  ELSE IF ~is_directory(<<1>>) THEN path_not_dir
  ELSE 0

\* finder::run up to thread.join(): checks, visit(root), start the thread
MainRun ==
  /\ mainpc = "run"
  /\ IF run_check # 0
     THEN /\ handle_err(run_check)
          /\ UNCHANGED <<m_queue, pushed, disp, notified>>
     ELSE /\ m_queue' = queue_push(m_queue, <<1>>)
          /\ pushed' = pushed \o SubSeq(m_queue', Len(m_queue) + 1, Len(m_queue'))
          /\ notified' = signals_after_push(notified)
          /\ disp' = "top"
          /\ mainpc' = "join"
          /\ UNCHANGED <<status, errlines>>
  /\ UNCHANGED <<argv, kind, m_params, m_mtx, m_tasks, nextId, out, scanned>>

\* thread.join(); return result.get(); main returns the value
MainJoin ==
  /\ mainpc = "join"
  /\ disp = "exited"
  /\ mainpc' = "done"
  /\ status' = EXIT_SUCCESS
  /\ UNCHANGED <<argv, kind, m_params, errlines, m_mtx, m_queue, m_tasks,
                 nextId, disp, out, pushed, scanned, notified>>

\* -------------------------------------------------------------- dispatcher
\* The predicate of m_cv.wait in finder::thread
wait_pred_queue_only(tasks, queue) == Len(queue) # 0
wait_pred(tasks, queue) == Len(tasks) # 0 \/ Len(queue) # 0

\* The clean-up loop: futures that are ready are erased from m_tasks
\* it->wait_for(0s) == std::future_status::ready
future_never_ready(t) == FALSE
future_ready(t) == t.pc = "done"

ReapAll(tasks) == SelectSeq(tasks, LAMBDA t : FALSE)
Reap(tasks) == SelectSeq(tasks, LAMBDA t : ~future_ready(t))

\* m_tasks.size() == 0 after the clean-up
no_tasks_left_unchecked(tasks) == TRUE
no_tasks_left(tasks) == Len(tasks) = 0

\* std::async(std::launch::async, &finder::run_visit, this, std::move(job))
NewTask(id, job) == [id |-> id, entry |-> job, pc |-> "start", todo |-> <<>>, cur |-> job]

\* m_tasks.emplace_back(std::async(...))
tasks_forget(tasks, t) == tasks
tasks_emplace_back(tasks, t) == Append(tasks, t)

\* m_queue.pop()
queue_pop(queue) == Tail(queue)

\* std::lock_guard / std::unique_lock on m_mtx can be taken
lock_not_taken == TRUE
lock_free == m_mtx = 0

\* One iteration of the loop of finder::thread is one critical section of
\* m_mtx: unique_lock, m_cv.wait(lck, pred), the clean-up, the decision and
\* what it does, then the lock is released at the end of the iteration.

\* queue empty, no task left after the clean-up: break; return EXIT_SUCCESS
DispBreak ==
  /\ disp = "top"
  /\ lock_free
  /\ wait_pred(m_tasks, m_queue)
  /\ Len(m_queue) = 0
  /\ no_tasks_left(Reap(m_tasks))
  /\ m_tasks' = Reap(m_tasks)
  /\ disp' = "exited"
  /\ UNCHANGED <<argv, kind, mainpc, m_params, status, errlines, m_mtx, m_queue,
                 nextId, out, pushed, scanned, notified>>

\* queue empty and nothing to start: with tasks outstanding the iteration
\* ends in continue; with the wait predicate false the thread sleeps in
\* m_cv.wait until the condition variable is notified
DispContinue ==
  /\ disp = "top"
  /\ lock_free
  /\ Len(m_queue) = 0
  /\ IF wait_pred(m_tasks, m_queue)
     THEN /\ ~no_tasks_left(Reap(m_tasks))
          /\ m_tasks' = Reap(m_tasks)
          /\ disp' = "top"
     ELSE /\ disp' = "waiting"
          /\ UNCHANGED m_tasks
  /\ UNCHANGED <<argv, kind, mainpc, m_params, status, errlines, m_mtx, m_queue,
                 nextId, out, pushed, scanned, notified>>

\* queue not empty: start a task for the front entry and pop it
DispDispatch ==
  /\ disp = "top"
  /\ lock_free
  /\ wait_pred(m_tasks, m_queue)
  /\ Len(m_queue) # 0
  /\ m_tasks' = tasks_emplace_back(Reap(m_tasks), NewTask(nextId + 1, Head(m_queue)))
  /\ nextId' = nextId + 1
  /\ scanned' = Append(scanned, Head(m_queue))
  /\ m_queue' = queue_pop(m_queue)
  /\ disp' = "top"
  /\ UNCHANGED <<argv, kind, mainpc, m_params, status, errlines, m_mtx, out, pushed,
                 notified>>

\* ----------------------------------------------------------------- scanner
TaskIds == 1..MaxNodes

\* Index in m_tasks of the task with this id, 0 when it is not there
IndexOf(id) ==
  IF \E i \in DOMAIN m_tasks : m_tasks[i].id = id
  THEN CHOOSE i \in DOMAIN m_tasks : m_tasks[i].id = id
  ELSE 0

\* run_visit: if (entry.is_symlink()) return;
skips_nothing(entry) == FALSE
skips_entry(entry) == is_symlink(entry)

\* print_entry: if (!shall_print(entry)) return;
print_always(entry) == TRUE
print_wanted(entry) == shall_print(entry)

\* The owner of m_mtx while print_entry writes a line: its lock_guard
own_output_lock(id) == 0
print_lock_holder(id) == id

\* The owner of m_mtx when print_entry returns: the lock_guard is destroyed
lock_kept_after_line(id) == id
lock_after_line(id) == 0

ScanUnchanged == <<argv, kind, mainpc, m_params, status, errlines, nextId, scanned>>

\* run_visit returns: what the return does to the count of notifications
signals_after_return(n) == n

\* run_visit calls print_entry(entry) before it constructs the iterator
self_line_last == FALSE
self_line_first == TRUE

\* run_visit up to its first use of m_mtx: the symlink test, the filter for
\* the entry itself and, when it is not printed, the directory_iterator
ScanStart(id) ==
  LET i == IndexOf(id) IN
  /\ i # 0
  /\ m_tasks[i].pc = "start"
  /\ LET e == m_tasks[i].entry IN
       m_tasks' = IF skips_entry(e) THEN [m_tasks EXCEPT ![i].pc = "done"]
                  ELSE IF self_line_first /\ print_wanted(e)
                       THEN [m_tasks EXCEPT ![i].pc = "print"]
                  ELSE [m_tasks EXCEPT ![i].pc = "loop", ![i].todo = Listing(e)]
  /\ UNCHANGED <<m_mtx, m_queue, disp, out, pushed>>
  /\ UNCHANGED notified
  /\ UNCHANGED ScanUnchanged

\* print_entry: lock_guard taken, std::cout << entry.path().native()
ScanPrintPath(id) ==
  LET i == IndexOf(id) IN
  /\ i # 0
  /\ m_tasks[i].pc = "print"
  /\ lock_free
  /\ m_mtx' = print_lock_holder(id)
  /\ out' = Append(out, [by |-> id, text |-> m_tasks[i].cur])
  /\ m_tasks' = [m_tasks EXCEPT ![i].pc = "print_nl"]
  /\ UNCHANGED <<m_queue, disp, pushed>>
  /\ UNCHANGED notified
  /\ UNCHANGED ScanUnchanged

\* print_entry: << "\n", lock_guard released; after the entry itself the
\* directory_iterator is constructed
ScanPrintNl(id) ==
  LET i == IndexOf(id) IN
  /\ i # 0
  /\ m_tasks[i].pc = "print_nl"
  /\ out' = Append(out, [by |-> id, text |-> NL])
  /\ m_mtx' = lock_after_line(id)
  /\ m_tasks' = IF m_tasks[i].cur # m_tasks[i].entry
                THEN [m_tasks EXCEPT ![i].pc = "loop"]
                ELSE IF self_line_first
                THEN [m_tasks EXCEPT ![i].pc = "loop", ![i].todo = Listing(m_tasks[i].entry)]
                ELSE [m_tasks EXCEPT ![i].pc = "done"]
  /\ UNCHANGED <<m_queue, disp, pushed>>
  /\ UNCHANGED notified
  /\ UNCHANGED ScanUnchanged

\* for (auto& e : it): a directory is visited, anything else is considered
\* for printing
ScanNext(id) ==
  LET i == IndexOf(id) IN
  /\ i # 0
  /\ m_tasks[i].pc = "loop"
  /\ m_tasks[i].todo # <<>>
  /\ LET e == Head(m_tasks[i].todo) IN
       m_tasks' = [m_tasks EXCEPT ![i].todo = Tail(@),
                     ![i].cur = e,
                     ![i].pc = IF is_directory(e) THEN "push"
                               ELSE IF print_wanted(e) THEN "print" ELSE "loop"]
  /\ UNCHANGED <<m_mtx, m_queue, disp, out, pushed>>
  /\ UNCHANGED notified
  /\ UNCHANGED ScanUnchanged

\* queue_visit: lock_guard, m_queue.push(entry), m_cv.notify_one()
ScanPush(id) ==
  LET i == IndexOf(id) IN
  /\ i # 0
  /\ m_tasks[i].pc = "push"
  /\ lock_free
  /\ m_queue' = queue_push(m_queue, m_tasks[i].cur)
  /\ pushed' = pushed \o SubSeq(m_queue', Len(m_queue) + 1, Len(m_queue'))
  /\ disp' = IF disp = "waiting" THEN "top" ELSE disp
  /\ m_tasks' = [m_tasks EXCEPT ![i].pc = "loop"]
  /\ UNCHANGED <<m_mtx, out>>
  /\ notified' = signals_after_push(notified)
  /\ UNCHANGED ScanUnchanged

\* the range-for ends, run_visit returns, the future becomes ready
ScanReturn(id) ==
  LET i == IndexOf(id) IN
  /\ i # 0
  /\ m_tasks[i].pc = "loop"
  /\ m_tasks[i].todo = <<>>
  /\ m_tasks' = IF ~self_line_first /\ print_wanted(m_tasks[i].entry)
                THEN [m_tasks EXCEPT ![i].pc = "print", ![i].cur = m_tasks[i].entry]
                ELSE [m_tasks EXCEPT ![i].pc = "done"]
  /\ UNCHANGED <<m_mtx, m_queue, disp, out, pushed>>
  /\ notified' = signals_after_return(notified)
  /\ UNCHANGED ScanUnchanged

ScanStep(id) ==
  \/ ScanStart(id)
  \/ ScanPrintPath(id)
  \/ ScanPrintNl(id)
  \/ ScanNext(id)
  \/ ScanPush(id)
  \/ ScanReturn(id)

\* --------------------------------------------------------- specifications
Next ==
  \/ MainFrom
  \/ MainRun
  \/ MainJoin
  \/ DispBreak
  \/ DispContinue
  \/ DispDispatch
  \/ \E id \in TaskIds : ScanStart(id)
  \/ \E id \in TaskIds : ScanPrintPath(id)
  \/ \E id \in TaskIds : ScanPrintNl(id)
  \/ \E id \in TaskIds : ScanNext(id)
  \/ \E id \in TaskIds : ScanPush(id)
  \/ \E id \in TaskIds : ScanReturn(id)

Spec == Init /\ [][Next]_vars

\* Every thread that can take a step eventually takes one.
Fairness ==
  /\ WF_vars(MainFrom \/ MainRun \/ MainJoin)
  /\ WF_vars(DispBreak \/ DispContinue \/ DispDispatch)
  /\ \A id \in TaskIds : WF_vars(ScanStep(id))

FairSpec == Spec /\ Fairness

TypeOK ==
  /\ mainpc \in {"from", "run", "join", "done"}
  /\ disp \in {"idle", "top", "waiting", "exited"}
  /\ m_mtx \in {0} \cup TaskIds
  /\ \A i \in DOMAIN m_tasks :
       m_tasks[i].pc \in {"start", "print", "print_nl", "loop", "push", "done"}

\* ------------------------------------------------------------ properties
\* The path of a position
RECURSIVE PathTo(_)
PathTo(n) == IF n = 1 THEN <<1>> ELSE Append(PathTo(n \div 2), n)

\* The entries under the root that are reachable without following a
\* symbolic link: every directory on the way to them is a real directory
RealEntries ==
  {PathTo(n) : n \in {m \in Nodes :
      /\ kind[m] # "absent"
      /\ \A j \in 1..(Len(PathTo(m)) - 1) : kind[PathTo(m)[j]] = "dir"}}

\* The paths written to std::cout, and how often each was written
PrintedPaths == {out[k].text : k \in {j \in DOMAIN out : out[j].text # NL}}
Count(p) == Cardinality({k \in DOMAIN out : out[k].text = p})

NoDup(q) == \A a, b \in DOMAIN q : a # b => q[a] # q[b]
Range(q) == {q[k] : k \in DOMAIN q}

\* run() has returned EXIT_SUCCESS: the traversal has ended
Ended == mainpc = "done" /\ status = EXIT_SUCCESS

\* run() has seeded the queue and started the dispatcher
Seeded == mainpc = "join"

NoFilter == m_params.type = "none" /\ ~m_params.name.has /\ ~m_params.iname.has

\* C1: once run() has seeded the queue with the root, under every fair
\* interleaving the dispatcher reaches Drained and run() returns the
\* success status.
C1_Termination ==
  Seeded ~> (disp = "exited" /\ mainpc = "done" /\ status = EXIT_SUCCESS)

C1_Witness ==
  /\ disp = "exited"
  /\ status = EXIT_SUCCESS
  /\ nextId >= 3

\* C2 as stated: when the traversal has ended, every entry under the root
\* (the root included) that satisfies the filter and is reachable without
\* following a symlink has been printed exactly once.
C2_Original ==
  Ended => \A p \in RealEntries : shall_print(p) => Count(p) = 1

\* C2 amended: when the traversal has ended, every entry reachable without
\* following a symlink that satisfies the filter and is not a symbolic link
\* to a directory has been printed exactly once; a symbolic link to a
\* directory (the root included) has not been printed, and nothing else has.
C2_Completeness ==
  Ended =>
    /\ \A p \in RealEntries :
         Count(p) = IF shall_print(p) /\ KindOf(p) # "linkdir" THEN 1 ELSE 0
    /\ PrintedPaths \subseteq RealEntries

C2_Witness ==
  /\ Ended
  /\ NoFilter
  /\ kind[1] = "dir" /\ kind[2] = "dir" /\ kind[3] = "linkdir" /\ kind[4] = "file"
  /\ PrintedPaths = {<<1>>, <<1, 2>>, <<1, 2, 4>>}

\* C3: every line of the output is the path of an entry under the root for
\* which shall_print is true.
C3_Soundness ==
  \A k \in DOMAIN out :
    out[k].text # NL => (out[k].text \in RealEntries /\ shall_print(out[k].text))

C3_Witness ==
  /\ Ended
  /\ m_params.type = "files"
  /\ kind[2] = "dir"
  /\ Count(<<1, 3>>) = 1
  /\ Count(<<1, 2, 4>>) = 1

\* C4: the dispatcher exits only from a state in which m_mtx is free, the
\* queue is empty and every task has finished; once it has exited nothing is
\* pushed on the queue and nothing is written to the output.
C4_Quiescence ==
  [][ /\ (disp # "exited" /\ disp' = "exited") =>
          /\ m_mtx = 0
          /\ m_queue = <<>>
          /\ \A i \in DOMAIN m_tasks : m_tasks[i].pc = "done"
      /\ disp = "exited" => (m_queue' = m_queue /\ pushed' = pushed /\ out' = out)
    ]_vars

C4_Witness ==
  /\ disp = "exited"
  /\ Len(scanned) >= 3
  /\ Len(out) >= 4

\* C5: every directory entry is pushed exactly once, every queued entry is
\* removed by exactly one dispatch, and no entry is scanned twice.
C5_ScannedOnce ==
  /\ NoDup(pushed)
  /\ NoDup(scanned)
  /\ pushed = scanned \o m_queue
  /\ Range(pushed) \subseteq {p \in RealEntries : is_directory(p)}
  /\ Ended => Range(scanned) = {p \in RealEntries : is_directory(p)}

C5_Witness ==
  /\ Ended
  /\ Len(scanned) >= 4

\* C6: a task started for a symbolic link returns without printing and
\* without enumerating, and no entry reachable only through a symbolic link
\* is ever pushed or printed.
C6_NoExpansion ==
  /\ \A i \in DOMAIN m_tasks :
       is_symlink(m_tasks[i].entry) =>
         (m_tasks[i].pc \in {"start", "done"} /\ m_tasks[i].todo = <<>>)
  /\ \A p \in Range(scanned) : is_symlink(p) => Count(p) = 0
  /\ Range(pushed) \subseteq RealEntries
  /\ PrintedPaths \subseteq RealEntries

C6_Witness ==
  /\ Ended
  /\ kind[3] = "linkdir"
  /\ kind[4] # "absent"
  /\ <<1, 3>> \in Range(scanned)

\* C7 as stated: no entry that is itself a symbolic link is ever printed.
C7_Original ==
  \A p \in PrintedPaths : ~is_symlink(p)

\* C7 amended: no symbolic link that resolves to a directory is ever
\* printed; a symbolic link that resolves to a regular file is printed
\* exactly when it satisfies the filter.
C7_SymlinkPrinting ==
  /\ \A p \in PrintedPaths : KindOf(p) # "linkdir"
  /\ \A p \in PrintedPaths : KindOf(p) = "linkfile" => shall_print(p)
  /\ Ended => \A p \in RealEntries :
       (KindOf(p) = "linkfile" /\ shall_print(p)) => Count(p) = 1

C7_Witness ==
  /\ Ended
  /\ kind[3] = "linkdir"
  /\ kind[4] = "linkfile"
  /\ Count(<<1, 2, 4>>) = 1
  /\ Count(<<1, 3>>) = 0

\* C8: output lines never interleave mid-line: every path written is
\* followed by the newline of the same writer before anything else is
\* written, and m_mtx is held exactly between those two writes.
C8_WholeLines ==
  /\ \A k \in DOMAIN out :
       IF k % 2 = 1
       THEN /\ out[k].text # NL
            /\ k = Len(out) => m_mtx = out[k].by
       ELSE /\ out[k].text = NL
            /\ out[k].by = out[k - 1].by
  /\ Len(out) % 2 = 0 => m_mtx = 0
  /\ \A i \in DOMAIN m_tasks : (m_mtx = m_tasks[i].id) <=> (m_tasks[i].pc = "print_nl")

C8_Witness ==
  \E i, j \in DOMAIN m_tasks :
    /\ m_tasks[i].pc = "print_nl"
    /\ m_tasks[j].pc = "print"
    /\ Len(out) >= 3

\* finder::run_visit with the synchronous visit: the paths a sequential
\* recursion prints
RECURSIVE run_visit_sync(_)
run_visit_sync(p) ==
  IF is_symlink(p) THEN {}
  ELSE (IF shall_print(p) THEN {p} ELSE {})
       \cup UNION { IF is_directory(Listing(p)[j])
                    THEN run_visit_sync(Listing(p)[j])
                    ELSE IF shall_print(Listing(p)[j]) THEN {Listing(p)[j]} ELSE {}
                    : j \in DOMAIN Listing(p) }

\* C9: the set of printed lines at termination does not depend on the
\* interleaving: it is the set the sequential recursion prints on the same
\* tree and filter.
C9_SameLines ==
  Ended => PrintedPaths = run_visit_sync(<<1>>)

C9_Witness ==
  /\ Ended
  /\ Cardinality({out[k].by : k \in DOMAIN out}) >= 3
  /\ \E k \in DOMAIN out : k + 2 <= Len(out) /\ out[k].by > out[k + 2].by

\* The error the command line and the root call for, 0 when there is none
ExpectedError ==
  IF ~params_from(argv).ok THEN params_from(argv).err
  ELSE IF ~(Len(argv) >= 1 /\ argv[1][1] # "-") THEN path_absent
  ELSE IF kind[1] = "absent" THEN path_not_exist
  ELSE IF kind[1] \notin {"dir", "linkdir"} THEN path_not_dir
  ELSE 0

\* C10: when the root path is missing, does not exist or is not a
\* directory, or filter construction fails, nothing is pushed, no dispatcher
\* or task is started, nothing is printed and the exit status is the
\* error's non-zero code.
C10_Preflight ==
  ExpectedError # 0 =>
    /\ m_queue = <<>> /\ pushed = <<>>
    /\ disp = "idle" /\ m_tasks = <<>> /\ nextId = 0
    /\ out = <<>>
    /\ mainpc # "join"
    /\ mainpc = "done" => (status = ExpectedError /\ status # 0 /\ errlines = 1)

C10_Witness ==
  /\ mainpc = "done"
  /\ status = path_not_dir
  /\ kind[1] = "file"

\* ------------------------------------------------- argument specification
\* Longest command line (without argv[0]) explored for params::from
MaxArgs == 5

\* The words a command line is made of
Tokens == {ROOT, DASH_TYPE, DASH_NAME, DASH_INAME, <<"d">>, <<"f">>, <<"a", "*">>}

ArgSeqs == UNION {[1..n -> Tokens] : n \in 0..MaxArgs}

\* Every command line up to MaxArgs words, on a root that is an empty
\* directory
ArgsInit ==
  /\ argv \in ArgSeqs
  /\ kind = [n \in Nodes |-> IF n = 1 THEN "dir" ELSE "absent"]
  /\ mainpc = "from"
  /\ m_params = EmptyParams
  /\ status = -1
  /\ errlines = 0
  /\ m_mtx = 0
  /\ m_queue = <<>>
  /\ m_tasks = <<>>
  /\ nextId = 0
  /\ disp = "idle"
  /\ out = <<>>
  /\ pushed = <<>>
  /\ scanned = <<>>
  /\ notified = 0

\* main up to the start of the traversal
ArgsNext ==
  \/ MainFrom
  \/ MainRun

ArgsSpec == ArgsInit /\ [][ArgsNext]_vars

\* The words after the optional path; modifiers stand at its odd positions
ArgBody == IF Len(argv) >= 1 /\ argv[1][1] # "-" THEN Tail(argv) ELSE argv

Modifiers == {DASH_TYPE, DASH_NAME, DASH_INAME}

\* The body is a sequence of modifier/value pairs: every odd position
\* holds one of the three modifiers and is followed by a value
ModifiersKnown ==
  /\ Len(ArgBody) % 2 = 0
  /\ \A k \in DOMAIN ArgBody : k % 2 = 1 => ArgBody[k] \in Modifiers

\* How often the modifier m is supplied
TimesSupplied(m) ==
  Cardinality({k \in DOMAIN ArgBody : k % 2 = 1 /\ ArgBody[k] = m})

\* C11: a command line that supplies -type, -name or -iname more than once
\* fails filter construction with duplicate_arg and no traversal occurs,
\* whatever values the modifiers are given.
C11_Duplicate ==
  (ModifiersKnown /\ \E m \in Modifiers : TimesSupplied(m) >= 2) =>
    /\ mainpc \in {"from", "done"}
    /\ mainpc = "done" => status = duplicate_arg
    /\ disp = "idle"
    /\ m_queue = <<>>

\* ---------------------------------------- enumeration-failure specification
\* What becomes of a task whose run_visit throws: std::async stores the
\* exception in the shared state and the future becomes ready
after_throw_stuck == "failed"
after_throw == "done"

\* fs::directory_iterator's constructor or its increment throws
\* filesystem_error: run_visit is left at that point
ScanThrow(id) ==
  LET i == IndexOf(id) IN
  /\ i # 0
  /\ m_tasks[i].pc = "loop"
  /\ KindOf(m_tasks[i].entry) = "dir_error"
  /\ m_tasks' = [m_tasks EXCEPT ![i].pc = after_throw, ![i].todo = <<>>]
  /\ UNCHANGED <<m_mtx, m_queue, disp, out, pushed>>
  /\ UNCHANGED notified
  /\ UNCHANGED ScanUnchanged

\* Trees of directories and files in which one directory cannot be
\* enumerated
FailFs(k) ==
  /\ k[1] \in {"dir"} \cup FailKinds
  /\ \A n \in Nodes \ {1} :
       /\ k[n] \in {"absent", "dir", "file"} \cup FailKinds
       /\ k[n] # "absent" => k[Parent(n)] \in {"dir"} \cup FailKinds
  /\ Cardinality({n \in Nodes : k[n] \in FailKinds}) = 1

FailInit ==
  /\ argv \in {<<ROOT>>, <<ROOT, DASH_TYPE, <<"f">>>>}
  /\ kind \in {k \in [Nodes -> Kinds \cup FailKinds] : FailFs(k)}
  /\ mainpc = "from"
  /\ m_params = EmptyParams
  /\ status = -1
  /\ errlines = 0
  /\ m_mtx = 0
  /\ m_queue = <<>>
  /\ m_tasks = <<>>
  /\ nextId = 0
  /\ disp = "idle"
  /\ out = <<>>
  /\ pushed = <<>>
  /\ scanned = <<>>
  /\ notified = 0

FailNext ==
  \/ Next
  \/ \E id \in TaskIds : ScanThrow(id)

\* The failure itself is not owed to anyone: no fairness for ScanThrow
FailSpec == FailInit /\ [][FailNext]_vars /\ Fairness

\* C12: a failure to enumerate a directory never aborts the run: the
\* dispatcher still reaches Drained and run() returns success, every
\* directory that was queued has been scanned, and every matching entry
\* that is not below a directory that cannot be enumerated has been printed
\* exactly once.
C12_FailureContained ==
  Seeded ~> /\ Ended
            /\ disp = "exited"
            /\ Range(pushed) = Range(scanned)
            /\ \A p \in RealEntries : shall_print(p) => Count(p) = 1

C12_Witness ==
  /\ Ended
  /\ kind[2] = "dir_error"
  /\ kind[3] = "dir"
  /\ kind[4] = "file"
  /\ <<1, 2>> \in Range(scanned)
  /\ Count(<<1, 2, 4>>) = 0
  /\ Count(<<1, 3>>) = 1

\* ------------------------------------------------------------ lock claims
\* The dispatcher can run a loop iteration
DispEnabled == ENABLED (DispBreak \/ DispContinue \/ DispDispatch)

\* C13 as stated: the lock held while a line is written is not the lock of
\* the queue: a task that is writing a line never prevents the dispatcher
\* from dequeuing or another task from pushing.
C13_Original ==
  \A i \in DOMAIN m_tasks :
    m_tasks[i].pc = "print_nl" =>
      /\ (disp = "top" /\ m_queue # <<>>) => DispEnabled
      /\ \A j \in DOMAIN m_tasks :
           m_tasks[j].pc = "push" => ENABLED ScanPush(m_tasks[j].id)

\* C13 amended: the output is serialized by m_mtx, the lock of the queue:
\* while a task is between the path and the newline of a line it holds
\* m_mtx, the dispatcher cannot run an iteration (so it cannot dequeue) and
\* no other task can push or start a line.
C13_SharedLock ==
  \A i \in DOMAIN m_tasks :
    m_tasks[i].pc = "print_nl" =>
      /\ m_mtx = m_tasks[i].id
      /\ ~DispEnabled
      /\ \A j \in DOMAIN m_tasks :
           /\ ~ENABLED ScanPush(m_tasks[j].id)
           /\ ~ENABLED ScanPrintPath(m_tasks[j].id)

C13_Witness ==
  /\ disp = "top"
  /\ m_queue # <<>>
  /\ \E i \in DOMAIN m_tasks : m_tasks[i].pc = "print_nl" /\ m_mtx = m_tasks[i].id

\* A task or the dispatcher is waiting for m_mtx
TaskWaitsForLock(i) == m_tasks[i].pc \in {"print", "push"} /\ m_mtx # 0
DispWaitsForLock == disp = "top" /\ m_mtx # 0

Completes ==
  \E i \in DOMAIN m_tasks :
    /\ m_tasks[i].pc # "done"
    /\ i \in DOMAIN m_tasks'
    /\ m_tasks'[i].id = m_tasks[i].id
    /\ m_tasks'[i].pc = "done"

\* C15 as stated: m_cv is signaled on every push of an entry and on every
\* completion of a task.
C15_Original ==
  [][ /\ Len(pushed') > Len(pushed) => notified' = notified + 1
      /\ Completes => notified' = notified + 1
    ]_vars

\* C15 amended: m_cv is signaled on every push of an entry and only then;
\* the completion of a task signals nothing.
C15_SignalOnPushOnly ==
  [][ /\ notified' - notified = Len(pushed') - Len(pushed)
      /\ Completes => notified' = notified
    ]_vars

C15_Witness ==
  /\ Ended
  /\ nextId = 3
  /\ Len(pushed) = 3
  /\ notified = 3

\* ------------------------------------------------------------ output order
\* p is a proper prefix of q: q lies in the subtree of p
Below(p, q) == Len(p) < Len(q) /\ SubSeq(q, 1, Len(p)) = p

\* C16: if a directory and an entry of its subtree are both printed, the
\* directory's line is written before the entry's line.
C16_ParentFirst ==
  \A k, l \in DOMAIN out :
    (out[k].text # NL /\ out[l].text # NL /\ Below(out[k].text, out[l].text)) => k < l

C16_Witness ==
  /\ Ended
  /\ Count(<<1>>) = 1
  /\ Count(<<1, 2>>) = 1
  /\ Count(<<1, 2, 4>>) = 1
  /\ \E k, l \in DOMAIN out : k < l /\ out[k].text = <<1, 2, 4>> /\ out[l].text = <<1, 3>>

\* ------------------------------------------------------------ the wait
\* a task whose future is not ready yet
Outstanding == \E i \in DOMAIN m_tasks : m_tasks[i].pc # "done"

\* C17: whenever the dispatcher is at the top of its loop the wait predicate
\* is true, so it never sleeps on the condition variable; with the queue
\* empty and a task outstanding its iteration ends in continue and it is at
\* the top of the loop again.
C17_NeverSuspends ==
  /\ disp = "top" => wait_pred(m_tasks, m_queue)
  /\ disp # "waiting"
  /\ (disp = "top" /\ m_queue = <<>> /\ Outstanding /\ lock_free) =>
       /\ ENABLED DispContinue
       /\ ~ENABLED DispBreak
       /\ ~ENABLED DispDispatch

\* the dispatcher polls: queue empty, a scanner still running, nothing to reap
C17_Witness ==
  /\ disp = "top"
  /\ m_queue = <<>>
  /\ lock_free
  /\ Len(m_tasks) = 2
  /\ \A i \in DOMAIN m_tasks : m_tasks[i].pc = "loop"
  /\ ENABLED DispContinue

\* ------------------------------------------------- the clean-up skipped
\* One iteration of the loop of finder::thread in which the clean-up loop is
\* left out: the decision is taken on m_tasks as it stands.
DispSkipReap ==
  /\ disp = "top"
  /\ lock_free
  /\ wait_pred(m_tasks, m_queue)
  /\ IF Len(m_queue) = 0
     THEN /\ disp' = IF no_tasks_left(m_tasks) THEN "exited" ELSE "top"
          /\ UNCHANGED <<m_tasks, nextId, scanned, m_queue>>
     ELSE /\ m_tasks' = tasks_emplace_back(m_tasks, NewTask(nextId + 1, Head(m_queue)))
          /\ nextId' = nextId + 1
          /\ scanned' = Append(scanned, Head(m_queue))
          /\ m_queue' = queue_pop(m_queue)
          /\ disp' = "top"
  /\ UNCHANGED <<argv, kind, mainpc, m_params, status, errlines, m_mtx, out, pushed,
                 notified>>

SkipInit == Init /\ argv = <<ROOT>>

SkipNext ==
  \/ Next
  \/ DispSkipReap

\* Every thread takes its steps; whether an iteration of the dispatcher
\* runs the clean-up is left open, so an iteration with the clean-up is
\* possible at any time and never forced.
SkipFairness ==
  /\ WF_vars(MainFrom \/ MainRun \/ MainJoin)
  /\ WF_vars(DispSkipReap)
  /\ \A id \in TaskIds : WF_vars(ScanStep(id))

SkipSpec == SkipInit /\ [][SkipNext]_vars /\ SkipFairness

\* every entry that passes the filter has its line, once
OutputComplete ==
  \A p \in RealEntries :
    Count(p) = IF shall_print(p) /\ KindOf(p) # "linkdir" THEN 1 ELSE 0

\* nothing is queued and every task that was started has returned
WorkDone ==
  /\ m_queue = <<>>
  /\ Range(pushed) = Range(scanned)
  /\ \A i \in DOMAIN m_tasks : m_tasks[i].pc = "done"

TrailingModifier ==
  /\ Len(ArgBody) % 2 = 1
  /\ \A k \in DOMAIN ArgBody : k % 2 = 1 => ArgBody[k] \in Modifiers
  /\ \A m \in Modifiers : TimesSupplied(m) <= 1

\* C19: a command line that ends with -type, -name or -iname with no value
\* after it makes filter construction fail with the generic error, before
\* any traversal.
C19_Generic ==
  TrailingModifier =>
    /\ mainpc \in {"from", "done"}
    /\ mainpc = "done" => status = generic
    /\ disp = "idle"
    /\ m_queue = <<>>

\* the generic error is never the outcome of filter construction
C19_NeverGeneric == status # generic

\* ------------------------------------------------------ filters combined
\* Command lines with every combination of -type, -name and -iname
TypeArgs == {<<>>, <<DASH_TYPE, <<"d">>>>, <<DASH_TYPE, <<"f">>>>}
NameArgs == {<<>>, <<DASH_NAME, <<"A", "*">>>>, <<DASH_NAME, <<"b">>>>}
InameArgs == {<<>>, <<DASH_INAME, <<"a", "*">>>>}
FilterArgv == {<<ROOT>> \o t \o n \o i : t \in TypeArgs, n \in NameArgs, i \in InameArgs}

\* Three trees under the root: a directory a with a file b in it beside a
\* file Ab; a link a to a directory Ab; a link a to a file Ab.
FilterTrees ==
  { [n \in Nodes |-> CASE n = 1 -> "dir" [] n = 2 -> "dir" [] n = 3 -> "file"
                       [] n = 4 -> "file" [] OTHER -> "absent"],
    [n \in Nodes |-> CASE n = 1 -> "dir" [] n = 2 -> "linkdir" [] n = 3 -> "dir"
                       [] OTHER -> "absent"],
    [n \in Nodes |-> CASE n = 1 -> "dir" [] n = 2 -> "linkfile" [] n = 3 -> "file"
                       [] OTHER -> "absent"] }

FilterInit ==
  /\ argv \in FilterArgv
  /\ kind \in FilterTrees
  /\ mainpc = "from"
  /\ m_params = EmptyParams
  /\ status = -1
  /\ errlines = 0
  /\ m_mtx = 0
  /\ m_queue = <<>>
  /\ m_tasks = <<>>
  /\ nextId = 0
  /\ disp = "idle"
  /\ out = <<>>
  /\ pushed = <<>>
  /\ scanned = <<>>
  /\ notified = 0

FilterSpec == FilterInit /\ [][Next]_vars

\* The value given to a modifier on the command line, <<>> when it is absent
ValueOf(m) ==
  IF \E k \in DOMAIN argv : argv[k] = m
  THEN argv[(CHOOSE k \in DOMAIN argv : argv[k] = m) + 1]
  ELSE <<>>
IsSet(m) == \E k \in DOMAIN argv : argv[k] = m

TypeHolds(p) ==
  \/ ~IsSet(DASH_TYPE)
  \/ ValueOf(DASH_TYPE) = <<"d">> /\ KindOf(p) \in {"dir", "linkdir"}
  \/ ValueOf(DASH_TYPE) = <<"f">> /\ KindOf(p) \in {"file", "linkfile"}
NameHolds(p) ==
  ~IsSet(DASH_NAME) \/ regex_match(filename(p), regex_from(ValueOf(DASH_NAME), FALSE))
InameHolds(p) ==
  ~IsSet(DASH_INAME) \/ regex_match(filename(p), regex_from(ValueOf(DASH_INAME), TRUE))

\* C20: once the filters are built, shall_print(entry) is true exactly when
\* the entry meets every constraint given on the command line (type, name,
\* name without case), and for every entry when none is given; only entries
\* that meet them all are printed.
C20_Conjunction ==
  mainpc # "from" =>
    /\ \A p \in RealEntries :
         shall_print(p) <=> (TypeHolds(p) /\ NameHolds(p) /\ InameHolds(p))
    /\ Len(argv) = 1 => \A p \in RealEntries : shall_print(p)
    /\ \A p \in PrintedPaths : TypeHolds(p) /\ NameHolds(p) /\ InameHolds(p)

\* all three constraints given: only the file Ab is printed; the directory
\* a passes the test without case alone, the file a/b the type test alone
C20_Witness ==
  /\ Ended
  /\ IsSet(DASH_TYPE) /\ IsSet(DASH_NAME) /\ IsSet(DASH_INAME)
  /\ kind[2] = "dir" /\ kind[4] = "file"
  /\ PrintedPaths = {<<1, 3>>}
  /\ InameHolds(<<1, 2>>) /\ ~TypeHolds(<<1, 2>>) /\ ~NameHolds(<<1, 2>>)
  /\ TypeHolds(<<1, 2, 4>>) /\ ~NameHolds(<<1, 2, 4>>) /\ ~InameHolds(<<1, 2, 4>>)

====
